---- MODULE Spec2Model ----
(***************************************************************************)
(* sandman/model.py: the registry of resource classes (register) and the   *)
(* Model mixin (endpoint, primary_key, resource_uri, links, as_dict,       *)
(* from_dict, replace).                                                    *)
(*                                                                         *)
(* Python strings that the code builds or transforms (table names,         *)
(* endpoints, URIs, str() of a value) are sequences of one-character       *)
(* strings, so that lower(), "+" and format() are computed.  Column and    *)
(* attribute names, which the code only uses as keys, are TLA+ strings.    *)
(*                                                                         *)
(* A column attribute shares the instance's namespace with the methods of  *)
(* Model; the tables modelled have no column named like one of them.       *)
(***************************************************************************)
EXTENDS Integers, Sequences, FiniteSets, TLC

VARIABLES
    endpoint_classes,  \* current_app.endpoint_classes: NoMapping or [endpoint -> class]
    reflected,         \* the classes whose __table__ has been populated by Model.prepare
    call,              \* the register call in progress: its position and what is left
    log,               \* history: the classes recorded so far, in order
    x,                 \* a resource instance: [cls, attrs]
    y,                 \* the fresh instance of a round trip, or NoInst
    ret                \* the method call whose result the caller holds, or NoRet

vars == <<endpoint_classes, reflected, call, log, x, y, ret>>

----------------------------------------------------------------------------
(* Bounds *)

\* the most keys an input dictionary drawn for from_dict / replace holds
MaxDictKeys == 2
\* the most classes recorded over all register calls of a run
MaxLog == 3
\* the longest sequence of classes passed to one register call
MaxBatch == 2

----------------------------------------------------------------------------
(* Python values.  One record shape for all of them, so that any two       *)
(* values can be compared: t is the type, i an int or a Decimal's          *)
(* coefficient, e a Decimal's number of fractional digits, s a string's    *)
(* characters, l a list's items.                                           *)

None == [t |-> "none", i |-> 0, e |-> 0, s |-> <<>>, l |-> <<>>]
PyInt(n) == [t |-> "int", i |-> n, e |-> 0, s |-> <<>>, l |-> <<>>]
PyStr(chars) == [t |-> "str", i |-> 0, e |-> 0, s |-> chars, l |-> <<>>]
\* Decimal: coefficient * 10^(-scale), e.g. Decimal("12.50") = Dec(1250, 2)
Dec(coeff, scale) == [t |-> "dec", i |-> coeff, e |-> scale, s |-> <<>>, l |-> <<>>]
List(items) == [t |-> "list", i |-> 0, e |-> 0, s |-> <<>>, l |-> items]

\* Python truthiness, the test of `if value:` in from_dict
Truthy(v) ==
    CASE v.t = "none" -> FALSE
      [] v.t = "int"  -> v.i # 0
      [] v.t = "str"  -> Len(v.s) > 0
      [] v.t = "dec"  -> v.i # 0
      [] v.t = "list" -> Len(v.l) > 0

\* isinstance(v, Decimal)
IsDecimal(v) == v.t = "dec"

----------------------------------------------------------------------------
(* Strings *)

UpperCase == <<"A","B","C","D","E","F","G","H","I","J","K","L","M",
               "N","O","P","Q","R","S","T","U","V","W","X","Y","Z">>
LowerCase == <<"a","b","c","d","e","f","g","h","i","j","k","l","m",
               "n","o","p","q","r","s","t","u","v","w","x","y","z">>
DigitChar == <<"0","1","2","3","4","5","6","7","8","9">>

LowerChar(c) ==
    IF \E k \in DOMAIN UpperCase : UpperCase[k] = c
    THEN LowerCase[CHOOSE k \in DOMAIN UpperCase : UpperCase[k] = c]
    ELSE c

\* str.lower()
Lower(chars) == [k \in DOMAIN chars |-> LowerChar(chars[k])]

\* the decimal digits of a natural number
RECURSIVE NatStr(_)
NatStr(n) ==
    IF n < 10 THEN <<DigitChar[n + 1]>>
    ELSE NatStr(n \div 10) \o <<DigitChar[(n % 10) + 1]>>

IntStr(n) == IF n < 0 THEN <<"-">> \o NatStr(-n) ELSE NatStr(n)

RECURSIVE Zeros(_)
Zeros(n) == IF n <= 0 THEN <<>> ELSE <<"0">> \o Zeros(n - 1)

\* str(Decimal), the plain notation Decimal.__str__ gives for an exponent <= 0
\* with fewer than six leading fractional zeros
DecStr(coeff, scale) ==
    LET digits == NatStr(IF coeff < 0 THEN -coeff ELSE coeff)
        sign == IF coeff < 0 THEN <<"-">> ELSE <<>>
        leftdigits == Len(digits) - scale
    IN  IF scale = 0 THEN sign \o digits
        ELSE IF leftdigits <= 0
             THEN sign \o <<"0", ".">> \o Zeros(-leftdigits) \o digits
             ELSE sign \o SubSeq(digits, 1, leftdigits) \o <<".">>
                       \o SubSeq(digits, leftdigits + 1, Len(digits))

\* repr of the items of a list of link dictionaries
RECURSIVE LinkItemsStr(_)
LinkItemsStr(items) ==
    IF items = <<>> THEN <<>>
    ELSE <<"{","'","r","e","l","'",":"," ","'","s","e","l","f","'",","," ",
           "'","u","r","i","'",":"," ","'">> \o items[1].uri \o <<"'","}">>
         \o (IF Len(items) > 1 THEN <<","," ">> ELSE <<>>)
         \o LinkItemsStr(Tail(items))

\* what '{}'.format(v) puts in the string: str(v)
Str(v) ==
    CASE v.t = "none" -> <<"N","o","n","e">>
      [] v.t = "int"  -> IntStr(v.i)
      [] v.t = "str"  -> v.s
      [] v.t = "dec"  -> DecStr(v.i, v.e)
      [] v.t = "list" -> <<"[">> \o LinkItemsStr(v.l) \o <<"]">>

----------------------------------------------------------------------------
(* The resource classes of the application and the tables of its database  *)

\* __endpoint__ = None
NoEndpoint == [isNone |-> TRUE, v |-> <<>>]
EndpointOverride(chars) == [isNone |-> FALSE, v |-> chars]

Classes == {"Person", "Tag", "Member", "Artist"}

\* each user class: __tablename__, __endpoint__, and the table reflection
\* will find for it (its column names in order, its primary-key columns)
ClassDef ==
    [c \in Classes |->
        CASE c = "Person" ->
               [tablename |-> <<"p","e","r","s","o","n">>,
                endpoint  |-> NoEndpoint,
                columns   |-> <<"id", "quantity">>,
                pk        |-> <<"id">>]
          [] c = "Tag" ->
               [tablename |-> <<"T","a","g">>,
                endpoint  |-> NoEndpoint,
                columns   |-> <<"label", "tag">>,
                pk        |-> <<"tag", "label">>]
          [] c = "Member" ->
               [tablename |-> <<"m","e","m","b","e","r">>,
                endpoint  |-> EndpointOverride(<<"p","e","r","s","o","n","s">>),
                columns   |-> <<"id">>,
                pk        |-> <<"id">>]
          [] c = "Artist" ->
               [tablename |-> <<"a","r","t","i","s","t">>,
                endpoint  |-> EndpointOverride(<<"T","a","g","s">>),
                columns   |-> <<"name">>,
                pk        |-> <<"name">>]]

\* __table__ = None until reflection
NoTable == [columns |-> <<>>, pk |-> <<>>, isNone |-> TRUE]

\* cls.__table__, given the classes reflected so far
Table(c, refl) ==
    IF c \in refl
    THEN [columns |-> ClassDef[c].columns, pk |-> ClassDef[c].pk, isNone |-> FALSE]
    ELSE NoTable

----------------------------------------------------------------------------
(* Model *)

\* a slip: the table name is not lowercased
EndpointAsWritten(c) ==
    IF ~ClassDef[c].endpoint.isNone
    THEN ClassDef[c].endpoint.v
    ELSE ClassDef[c].tablename \o <<"s">>

\* Model.endpoint
Endpoint(c) ==
    IF ~ClassDef[c].endpoint.isNone
    THEN ClassDef[c].endpoint.v
    ELSE Lower(ClassDef[c].tablename) \o <<"s">>

\* a slip: the last primary-key column instead of the first
PrimaryKeyLast(tbl) == tbl.pk[Len(tbl.pk)]

\* Model.primary_key, on a reflected table
PrimaryKey(tbl) == tbl.pk[1]

\* getattr(self, name, None)
GetAttr(attrs, name) == IF name \in DOMAIN attrs THEN attrs[name] ELSE None

\* setattr(self, name, value)
SetAttr(attrs, name, value) ==
    [k \in DOMAIN attrs \cup {name} |-> IF k = name THEN value ELSE attrs[k]]

\* Model.resource_uri
ResourceUri(c, tbl, attrs) ==
    LET primary_key_value == GetAttr(attrs, PrimaryKey(tbl))
    IN  <<"/">> \o Endpoint(c) \o <<"/">> \o Str(primary_key_value)

\* Model.links
Links(c, tbl, attrs) ==
    Append(<<>>, [rel |-> "self", uri |-> ResourceUri(c, tbl, attrs)])

\* dict.get(key, None)
DictGet(d, key) == IF key \in DOMAIN d THEN d[key] ELSE None

\* d[key] = value
DictSet(d, key, value) ==
    [k \in DOMAIN d \cup {key} |-> IF k = key THEN value ELSE d[k]]

EmptyDict == [k \in {} |-> None]

\* a slip: the Decimal is handed on as it is
MarshalUnconverted(v) == v

\* a slip: the Decimal goes through a float, which keeps no trailing zero
MarshalRounded(v) ==
    IF IsDecimal(v) /\ v.e > 0 /\ v.i % 10 = 0
    THEN PyStr(DecStr(v.i \div 10, v.e - 1))
    ELSE IF IsDecimal(v) THEN PyStr(Str(v)) ELSE v

\* one value of as_dict's result: a Decimal as its string
Marshal(v) == IF IsDecimal(v) THEN PyStr(Str(v)) ELSE v

\* the loop of Model.as_dict over the table's columns
RECURSIVE AsDictLoop(_, _, _)
AsDictLoop(result_dict, columns, attrs) ==
    IF columns = <<>> THEN result_dict
    ELSE AsDictLoop(DictSet(result_dict, Head(columns),
                            Marshal(GetAttr(attrs, Head(columns)))),
                    Tail(columns), attrs)

\* a slip: every attribute of the instance is written, not the columns
AsDictAllAttributes(c, tbl, attrs) ==
    DictSet([k \in DOMAIN attrs |-> Marshal(attrs[k])],
            "links", List(Links(c, tbl, attrs)))

\* Model.as_dict
AsDict(c, tbl, attrs) ==
    DictSet(AsDictLoop(EmptyDict, tbl.columns, attrs),
            "links", List(Links(c, tbl, attrs)))

\* a slip: the key's presence is tested, not the value's truth
FromDictColumnIfPresent(attrs, column, dictionary) ==
    IF column \in DOMAIN dictionary
    THEN SetAttr(attrs, column, dictionary[column])
    ELSE attrs

\* one iteration of from_dict's loop
FromDictColumn(attrs, column, dictionary) ==
    LET value == DictGet(dictionary, column)
    IN  IF Truthy(value) THEN SetAttr(attrs, column, value) ELSE attrs

\* Model.from_dict
RECURSIVE FromDict(_, _, _)
FromDict(attrs, columns, dictionary) ==
    IF columns = <<>> THEN attrs
    ELSE FromDict(FromDictColumn(attrs, Head(columns), dictionary),
                  Tail(columns), dictionary)

\* a slip: nothing is cleared
ClearNothing(attrs, columns) == attrs

\* the loop of Model.replace that clears every column
RECURSIVE ClearColumns(_, _)
ClearColumns(attrs, columns) ==
    IF columns = <<>> THEN attrs
    ELSE ClearColumns(SetAttr(attrs, Head(columns), None), Tail(columns))

\* Model.replace
Replace(attrs, columns, dictionary) ==
    FromDict(ClearColumns(attrs, columns), columns, dictionary)

----------------------------------------------------------------------------
(* register *)

EmptyMapping == [e \in {} |-> ""]

\* getattr(current_app, 'endpoint_classes', None) is None
NoMapping == [isNone |-> TRUE, m |-> EmptyMapping]

\* a slip: setdefault, the first class under an endpoint stays
RecordIfAbsent(m, c) ==
    [e \in DOMAIN m \cup {Endpoint(c)} |-> IF e \in DOMAIN m THEN m[e] ELSE c]

\* current_app.endpoint_classes[entry.endpoint()] = entry
Record(m, c) ==
    [e \in DOMAIN m \cup {Endpoint(c)} |-> IF e = Endpoint(c) THEN c ELSE m[e]]

\* if the mapping is None, it becomes {}
EnsureMapping(ec) == IF ec.isNone THEN [isNone |-> FALSE, m |-> EmptyMapping] ELSE ec

\* the classes Model.prepare(db.engine) reflects: every class declared on the
\* declarative base, registered or not
Prepared(refl) == refl \cup Classes

\* a slip: Model.prepare indented into the for loop
PcAfterPrepareInLoop(stmt, isSeq, todo) ==
    CASE stmt = "ctx"     -> "branch"
      [] stmt = "branch"  -> IF isSeq THEN "loop" ELSE "single"
      [] stmt = "loop"    -> IF todo = <<>> THEN "idle" ELSE "body"
      [] stmt = "body"    -> "prepare"
      [] stmt = "single"  -> "prepare"
      [] stmt = "prepare" -> IF isSeq THEN "loop" ELSE "idle"

\* the statement register runs after statement stmt: "ctx" is lines 22-23,
\* "branch" line 24, "loop" the for of line 25 (todo: the entries left),
\* "body" line 26, "single" line 28, "prepare" line 29
PcAfter(stmt, isSeq, todo) ==
    CASE stmt = "ctx"     -> "branch"
      [] stmt = "branch"  -> IF isSeq THEN "loop" ELSE "single"
      [] stmt = "loop"    -> IF todo = <<>> THEN "prepare" ELSE "body"
      [] stmt = "body"    -> "loop"
      [] stmt = "single"  -> "prepare"
      [] stmt = "prepare" -> "idle"

NoCall ==
    [pc |-> "idle", isSeq |-> FALSE, items |-> <<>>, todo |-> <<>>,
     prepares |-> 0, status |-> "none"]

\* op: the method; arg: its dictionary argument; pre: the instance's
\* attributes when it was called; out: the dictionary, res: the value,
\* name: the column name it returned; err: the exception it raised
NoRet ==
    [op |-> "none", cls |-> "none", arg |-> EmptyDict, pre |-> EmptyDict,
     out |-> EmptyDict, res |-> None, name |-> "", err |-> "none"]

\* the attribute every instance of a mapped class carries besides its columns
SaState == "_sa_instance_state"

\* cls(): no column attribute is set yet
Fresh(c) == [cls |-> c, attrs |-> [k \in {SaState} |-> PyStr(<<"o">>)]]

NoInst == [cls |-> "none", attrs |-> EmptyDict]

\* the sequences of classes a register call is given
Batches == UNION {[1..n -> Classes] : n \in 0..MaxBatch}

\* register(cls) is entered
RegisterEnter ==
    /\ call.pc = "idle"
    /\ \E isSeq \in BOOLEAN : \E items \in Batches :
          /\ isSeq \/ Len(items) = 1
          /\ Len(log) + Len(items) <= MaxLog
          /\ call' = [pc |-> "ctx", isSeq |-> isSeq, items |-> items,
                      todo |-> <<>>, prepares |-> 0, status |-> "running"]
    /\ UNCHANGED <<endpoint_classes, reflected, log, x, y, ret>>

\* the call moves on from statement stmt; it returns normally at "idle"
Advance(c, stmt, todo) ==
    LET next == PcAfter(stmt, c.isSeq, todo)
    IN  [c EXCEPT !.pc = next, !.todo = todo,
                  !.status = IF next = "idle" THEN "ok" ELSE c.status]

\* lines 22-23
RegisterEnsureMapping ==
    /\ call.pc = "ctx"
    /\ endpoint_classes' = EnsureMapping(endpoint_classes)
    /\ call' = Advance(call, "ctx", call.todo)
    /\ UNCHANGED <<reflected, log, x, y, ret>>

\* line 24
RegisterBranch ==
    /\ call.pc = "branch"
    /\ call' = Advance(call, "branch", IF call.isSeq THEN call.items ELSE <<>>)
    /\ UNCHANGED <<endpoint_classes, reflected, log, x, y, ret>>

\* line 25: the for statement takes the next entry, or the loop ends
RegisterLoop ==
    /\ call.pc = "loop"
    /\ call' = Advance(call, "loop", call.todo)
    /\ UNCHANGED <<endpoint_classes, reflected, log, x, y, ret>>

\* line 26
RegisterLoopBody ==
    /\ call.pc = "body"
    /\ endpoint_classes' =
          [endpoint_classes EXCEPT !.m = Record(endpoint_classes.m, Head(call.todo))]
    /\ log' = Append(log, Head(call.todo))
    /\ call' = Advance(call, "body", Tail(call.todo))
    /\ UNCHANGED <<reflected, x, y, ret>>

\* line 28
RegisterSingle ==
    /\ call.pc = "single"
    /\ endpoint_classes' =
          [endpoint_classes EXCEPT !.m = Record(endpoint_classes.m, call.items[1])]
    /\ log' = Append(log, call.items[1])
    /\ call' = Advance(call, "single", call.todo)
    /\ UNCHANGED <<reflected, x, y, ret>>

\* line 29, the database answering
RegisterPrepare ==
    /\ call.pc = "prepare"
    /\ reflected' = Prepared(reflected)
    /\ call' = Advance([call EXCEPT !.prepares = call.prepares + 1],
                       "prepare", call.todo)
    /\ UNCHANGED <<endpoint_classes, log, x, y, ret>>

\* line 29, the database unavailable: the reflection engine's error leaves register
RegisterPrepareFails ==
    /\ call.pc = "prepare"
    /\ call' = [call EXCEPT !.pc = "idle", !.prepares = call.prepares + 1,
                            !.status = "error"]
    /\ UNCHANGED <<endpoint_classes, reflected, log, x, y, ret>>

\* no method call is under way: the caller has taken the last result
Returned == ret.op = "none"

\* the caller is done with the result of the last call (and with the
\* instance it built from it)
Return ==
    /\ ~Returned
    /\ ret' = NoRet
    /\ y' = NoInst
    /\ UNCHANGED <<endpoint_classes, reflected, call, log, x>>

\* cls.endpoint() called by the application, between register calls
CallEndpoint ==
    /\ call.pc = "idle"
    /\ Returned
    /\ \E c \in Classes :
          ret' = [NoRet EXCEPT !.op = "endpoint", !.cls = c,
                               !.res = PyStr(Endpoint(c))]
    /\ UNCHANGED <<endpoint_classes, reflected, call, log, x, y>>

\* cls.primary_key() called by the application: before reflection __table__
\* is None and the attribute access raises
CallPrimaryKey ==
    /\ call.pc = "idle"
    /\ Returned
    /\ \E c \in Classes :
          LET tbl == Table(c, reflected)
          IN  ret' = IF tbl.isNone
                     THEN [NoRet EXCEPT !.op = "primary_key", !.cls = c,
                                        !.err = "AttributeError"]
                     ELSE [NoRet EXCEPT !.op = "primary_key", !.cls = c,
                                        !.name = PrimaryKey(tbl)]
    /\ UNCHANGED <<endpoint_classes, reflected, call, log, x, y>>

InitReg ==
    /\ endpoint_classes = NoMapping
    /\ reflected = {}
    /\ call = NoCall
    /\ log = <<>>
    /\ x = NoInst
    /\ y = NoInst
    /\ ret = NoRet

NextReg ==
    \/ RegisterEnter
    \/ RegisterEnsureMapping
    \/ RegisterBranch
    \/ RegisterLoop
    \/ RegisterLoopBody
    \/ RegisterSingle
    \/ RegisterPrepare
    \/ RegisterPrepareFails
    \/ CallEndpoint
    \/ CallPrimaryKey
    \/ Return

SpecReg == InitReg /\ [][NextReg]_vars

----------------------------------------------------------------------------
(* Instances, once the application has registered its classes *)

\* the values the ORM loads into a column attribute
ColumnValues ==
    {None, PyInt(0), PyInt(3), PyStr(<<"x">>), Dec(1250, 2), Dec(0, 2)}

\* the values the dictionary handed to from_dict or replace holds
InputValues ==
    {None, PyInt(0), PyInt(5), PyStr(<<>>), PyStr(<<"x">>), List(<<>>), Dec(0, 2)}

\* the keys of the input dictionaries: the columns, and "links" (which
\* as_dict's output carries, and which is no column of most tables)
DictKeys(tbl) == {tbl.columns[k] : k \in DOMAIN tbl.columns} \cup {"links"}

\* the input dictionaries drawn for from_dict and replace
Dicts(tbl) ==
    UNION {[K -> InputValues] :
              K \in {S \in SUBSET DictKeys(tbl) : Cardinality(S) <= MaxDictKeys}}

\* the rows the ORM loads: a value for every column
Rows(tbl) == [{tbl.columns[k] : k \in DOMAIN tbl.columns} -> ColumnValues]

RECURSIVE LoadRow(_, _, _)
LoadRow(attrs, columns, row) ==
    IF columns = <<>> THEN attrs
    ELSE LoadRow(SetAttr(attrs, Head(columns), row[Head(columns)]),
                 Tail(columns), row)

\* self.__table__ of the instance x
XTable == Table(x.cls, reflected)

\* an instance is constructed
New ==
    /\ Returned
    /\ \E c \in Classes :
          /\ ~Table(c, reflected).isNone
          /\ x' = Fresh(c)
    /\ UNCHANGED <<ret, y>>
    /\ UNCHANGED <<endpoint_classes, reflected, call, log>>

\* the ORM loads a row into an instance
Load ==
    /\ Returned
    /\ \E c \in Classes :
          LET tbl == Table(c, reflected)
          IN  /\ ~tbl.isNone
              /\ \E row \in Rows(tbl) :
                    x' = [cls |-> c,
                          attrs |-> LoadRow(Fresh(c).attrs, tbl.columns, row)]
    /\ UNCHANGED <<ret, y>>
    /\ UNCHANGED <<endpoint_classes, reflected, call, log>>

\* x.from_dict(d)
CallFromDict ==
    /\ Returned
    /\ ~XTable.isNone
    /\ \E d \in Dicts(XTable) :
          /\ x' = [x EXCEPT !.attrs = FromDict(x.attrs, XTable.columns, d)]
          /\ ret' = [NoRet EXCEPT !.op = "from_dict", !.cls = x.cls,
                                  !.arg = d, !.pre = x.attrs]
    /\ y' = y
    /\ UNCHANGED <<endpoint_classes, reflected, call, log>>

\* x.replace(d)
CallReplace ==
    /\ Returned
    /\ ~XTable.isNone
    /\ \E d \in Dicts(XTable) :
          /\ x' = [x EXCEPT !.attrs = Replace(x.attrs, XTable.columns, d)]
          /\ ret' = [NoRet EXCEPT !.op = "replace", !.cls = x.cls,
                                  !.arg = d, !.pre = x.attrs]
    /\ y' = y
    /\ UNCHANGED <<endpoint_classes, reflected, call, log>>

\* x.as_dict()
CallAsDict ==
    /\ Returned
    /\ ~XTable.isNone
    /\ ret' = [NoRet EXCEPT !.op = "as_dict", !.cls = x.cls, !.pre = x.attrs,
                            !.out = AsDict(x.cls, XTable, x.attrs)]
    /\ y' = y
    /\ UNCHANGED <<endpoint_classes, reflected, call, log, x>>

\* x.resource_uri()
CallResourceUri ==
    /\ Returned
    /\ ~XTable.isNone
    /\ ret' = [NoRet EXCEPT !.op = "resource_uri", !.cls = x.cls, !.pre = x.attrs,
                            !.res = PyStr(ResourceUri(x.cls, XTable, x.attrs))]
    /\ y' = y
    /\ UNCHANGED <<endpoint_classes, reflected, call, log, x>>

\* x.links()
CallLinks ==
    /\ Returned
    /\ ~XTable.isNone
    /\ ret' = [NoRet EXCEPT !.op = "links", !.cls = x.cls, !.pre = x.attrs,
                            !.res = List(Links(x.cls, XTable, x.attrs))]
    /\ y' = y
    /\ UNCHANGED <<endpoint_classes, reflected, call, log, x>>

\* y = cls(); y.from_dict(d), with d the dictionary x.as_dict() just returned
RoundTrip ==
    /\ ret.op = "as_dict"
    /\ y' = [cls |-> x.cls,
             attrs |-> FromDict(Fresh(x.cls).attrs, XTable.columns, ret.out)]
    /\ ret' = [ret EXCEPT !.op = "round_trip", !.arg = ret.out]
    /\ UNCHANGED <<endpoint_classes, reflected, call, log, x>>

\* the order in which the application registered its classes at startup
StartupOrder == <<"Person", "Tag", "Member", "Artist">>

RECURSIVE RecordAll(_, _)
RecordAll(m, items) ==
    IF items = <<>> THEN m ELSE RecordAll(Record(m, Head(items)), Tail(items))

\* after register(StartupOrder) has returned
InitInst ==
    /\ endpoint_classes = [isNone |-> FALSE, m |-> RecordAll(EmptyMapping, StartupOrder)]
    /\ reflected = Prepared({})
    /\ call = [NoCall EXCEPT !.isSeq = TRUE, !.items = StartupOrder,
                             !.prepares = 1, !.status = "ok"]
    /\ log = StartupOrder
    /\ x = Fresh("Person")
    /\ y = NoInst
    /\ ret = NoRet

NextInst ==
    \/ New
    \/ Load
    \/ CallFromDict
    \/ CallReplace
    \/ CallAsDict
    \/ CallResourceUri
    \/ CallLinks
    \/ RoundTrip
    \/ Return

SpecInst == InitInst /\ [][NextInst]_vars

----------------------------------------------------------------------------
(* What the properties below are stated with *)

\* the column names of class c's table
ColumnsOf(c) == {ClassDef[c].columns[k] : k \in DOMAIN ClassDef[c].columns}

\* null, 0, the empty string, the empty collection, and a zero Decimal
Falsy(v) ==
    \/ v \in {None, PyInt(0), PyStr(<<>>), List(<<>>)}
    \/ (v.t = "dec" /\ v.i = 0)

\* dictionary d holds a truthy value under key k
HasTruthy(d, k) == k \in DOMAIN d /\ ~Falsy(d[k])

\* attribute k has the same value, or is unset, in both
SameAttr(a, b, k) ==
    /\ (k \in DOMAIN a) = (k \in DOMAIN b)
    /\ k \in DOMAIN a => a[k] = b[k]

DigitOf(ch) == CHOOSE k \in 0..9 : DigitChar[k + 1] = ch

\* the number a string of digits (a "." among them skipped) writes
RECURSIVE ReadDigits(_, _)
ReadDigits(chars, acc) ==
    IF chars = <<>> THEN acc
    ELSE IF Head(chars) = "." THEN ReadDigits(Tail(chars), acc)
         ELSE ReadDigits(Tail(chars), 10 * acc + DigitOf(Head(chars)))

\* the Decimal an unsigned plain-notation string writes: its digits are the
\* coefficient, the digits after the point the scale
ReadDecimal(chars) ==
    LET dots == {k \in DOMAIN chars : chars[k] = "."}
        scale == IF dots = {} THEN 0 ELSE Len(chars) - (CHOOSE k \in dots : TRUE)
    IN  Dec(ReadDigits(chars, 0), scale)

\* the value of x's primary-key column when the last call was made, if any
KeyColumn == ClassDef[ret.cls].pk[1]
KeyAssigned == KeyColumn \in DOMAIN ret.pre /\ ret.pre[KeyColumn] # None

----------------------------------------------------------------------------
(* Properties *)

\* C1: from_dict(d) is a partial update: a column under which d holds a
\* truthy value becomes that value, every other column (absent from d, or
\* null, 0, empty string or empty collection in d) keeps what it had.
FromDictPartialUpdate ==
    ret.op = "from_dict" =>
        \A c \in ColumnsOf(ret.cls) :
            IF HasTruthy(ret.arg, c)
            THEN c \in DOMAIN x.attrs /\ x.attrs[c] = ret.arg[c]
            ELSE SameAttr(x.attrs, ret.pre, c)

\* quantity = 5 is still 5 after from_dict({"quantity": 0})
FromDictZeroWitness ==
    /\ ret.op = "from_dict"
    /\ ret.cls = "Person"
    /\ ret.arg = [k \in {"quantity"} |-> PyInt(0)]
    /\ GetAttr(ret.pre, "quantity") = PyInt(5)
    /\ GetAttr(x.attrs, "quantity") = PyInt(5)

AllColumnsTruthy ==
    \A c \in ColumnsOf(x.cls) : c \in DOMAIN x.attrs /\ ~Falsy(x.attrs[c])

\* C3 as stated: as_dict() then from_dict() on a fresh instance gives back
\* every column of an all-truthy instance.
RoundTripEqual ==
    (ret.op = "round_trip" /\ AllColumnsTruthy) =>
        \A c \in ColumnsOf(x.cls) : c \in DOMAIN y.attrs /\ y.attrs[c] = x.attrs[c]

\* C3 as amended: the round trip gives back every column that holds no
\* Decimal; a Decimal column comes back as the string that writes it.
RoundTripAsMarshalled ==
    (ret.op = "round_trip" /\ AllColumnsTruthy) =>
        \A c \in ColumnsOf(x.cls) :
            /\ c \in DOMAIN y.attrs
            /\ IF x.attrs[c].t = "dec"
               THEN y.attrs[c].t = "str" /\ ReadDecimal(y.attrs[c].s) = x.attrs[c]
               ELSE y.attrs[c] = x.attrs[c]

RoundTripWitness ==
    /\ ret.op = "round_trip"
    /\ x.cls = "Person"
    /\ GetAttr(x.attrs, "id") = PyInt(3)
    /\ GetAttr(x.attrs, "quantity") = Dec(1250, 2)
    /\ GetAttr(y.attrs, "id") = PyInt(3)
    /\ GetAttr(y.attrs, "quantity") = PyStr(<<"1","2",".","5","0">>)

\* C6: the keys of as_dict() are exactly the table's column names and
\* "links"; no other attribute of the instance appears.
AsDictKeys ==
    ret.op = "as_dict" => DOMAIN ret.out = ColumnsOf(ret.cls) \cup {"links"}

\* as_dict() of an instance with an unset column and a non-column attribute
AsDictKeysWitness ==
    /\ ret.op = "as_dict"
    /\ SaState \in DOMAIN ret.pre
    /\ \E c \in ColumnsOf(ret.cls) : c \notin DOMAIN ret.pre /\ ret.out[c] = None
    /\ \E c \in ColumnsOf(ret.cls) : c \in DOMAIN ret.pre /\ ret.out[c] # None

\* C7: with key value k, resource_uri() is "/" + endpoint() + "/" + str(k)
\* and links() is the one entry {rel: "self", uri: resource_uri()}; table
\* person with id = 3 gives "/persons/3".
ResourceUriAndLinks ==
    LET uri == <<"/">> \o Endpoint(ret.cls) \o <<"/">> \o Str(ret.pre[KeyColumn])
        person3 == ret.cls = "Person" /\ ret.pre[KeyColumn] = PyInt(3)
    IN  /\ (ret.op = "resource_uri" /\ KeyAssigned) =>
              /\ ret.res = PyStr(uri)
              /\ person3 => ret.res.s = <<"/","p","e","r","s","o","n","s","/","3">>
        /\ (ret.op = "links" /\ KeyAssigned) =>
              /\ ret.res = List(<<[rel |-> "self", uri |-> uri]>>)
              /\ person3 =>
                    ret.res.l[1].uri = <<"/","p","e","r","s","o","n","s","/","3">>

LinksWitness ==
    /\ ret.op = "links"
    /\ ret.cls = "Tag"
    /\ GetAttr(ret.pre, "tag") = PyStr(<<"x">>)
    /\ GetAttr(ret.pre, "label") = PyInt(3)
    /\ ret.res = List(<<[rel |-> "self", uri |-> <<"/","t","a","g","s","/","x">>]>>)

\* C8 as stated: without a primary-key value, resource_uri() is
\* "/<endpoint>/" with no key text after it.
ResourceUriUnassignedKey ==
    (ret.op = "resource_uri" /\ ~KeyAssigned) =>
        ret.res = PyStr(<<"/">> \o Endpoint(ret.cls) \o <<"/">>)

\* C9: as_dict() gives a Decimal column as the string that writes it
\* exactly (12.50 as "12.50") and any other column as its value, and leaves
\* the instance as it was.
AsDictValues ==
    ret.op = "as_dict" =>
        /\ x.attrs = ret.pre
        /\ \A c \in ColumnsOf(ret.cls) :
              LET v == GetAttr(ret.pre, c)
              IN  IF v.t = "dec"
                  THEN /\ ret.out[c].t = "str"
                       /\ ReadDecimal(ret.out[c].s) = v
                       /\ v = Dec(1250, 2) =>
                             ret.out[c].s = <<"1","2",".","5","0">>
                  ELSE ret.out[c] = v

AsDictDecimalWitness ==
    /\ ret.op = "as_dict"
    /\ GetAttr(ret.pre, "quantity") = Dec(1250, 2)
    /\ ret.out["quantity"] = PyStr(<<"1","2",".","5","0">>)
    /\ GetAttr(ret.pre, "id") = PyInt(3)
    /\ ret.out["id"] = PyInt(3)

\* the position in the log of the last class recorded under endpoint e
LastRecorded(e) ==
    CHOOSE k \in DOMAIN log :
        /\ Endpoint(log[k]) = e
        /\ \A j \in DOMAIN log : j > k => Endpoint(log[j]) # e

\* C4: the registry is last-write-wins: it maps every endpoint name under
\* which a class was recorded to the class recorded there most recently,
\* and nothing else; a call fails only in reflection, never on a duplicate.
LastWriteWins ==
    /\ endpoint_classes.isNone => log = <<>>
    /\ DOMAIN endpoint_classes.m = {Endpoint(log[k]) : k \in DOMAIN log}
    /\ \A e \in DOMAIN endpoint_classes.m :
          endpoint_classes.m[e] = log[LastRecorded(e)]
    /\ call.status = "error" => call.prepares >= 1

\* Member was registered after Person under "persons", Tag under "tags"
LastWriteWinsWitness ==
    /\ call.pc = "idle"
    /\ call.status = "ok"
    /\ \E j, k \in DOMAIN log : j < k /\ log[j] = "Person" /\ log[k] = "Member"
    /\ <<"p","e","r","s","o","n","s">> \in DOMAIN endpoint_classes.m
    /\ endpoint_classes.m[<<"p","e","r","s","o","n","s">>] = "Member"
    /\ <<"t","a","g","s">> \in DOMAIN endpoint_classes.m

\* character a is the lowercase of character b
IsLowerOf(a, b) ==
    IF \E k \in DOMAIN UpperCase : UpperCase[k] = b
    THEN \E k \in DOMAIN UpperCase : UpperCase[k] = b /\ LowerCase[k] = a
    ELSE a = b

\* string e is class c's endpoint: the override if there is one, else the
\* table name in lowercase followed by "s"
IsEndpointOf(e, c) ==
    IF ~ClassDef[c].endpoint.isNone
    THEN e = ClassDef[c].endpoint.v
    ELSE /\ Len(e) = Len(ClassDef[c].tablename) + 1
         /\ e[Len(e)] = "s"
         /\ \A k \in DOMAIN ClassDef[c].tablename :
               IsLowerOf(e[k], ClassDef[c].tablename[k])

\* C5: a call of endpoint() returns the override verbatim if one is set,
\* else the table name lowercased with "s" appended, and changes nothing,
\* before reflection and after.
EndpointPure ==
    [][(ret.op = "none" /\ ret'.op = "endpoint") =>
          /\ ret'.res.t = "str"
          /\ IsEndpointOf(ret'.res.s, ret'.cls)
          /\ ret'.cls = "Person" => ret'.res.s = <<"p","e","r","s","o","n","s">>
          /\ UNCHANGED <<endpoint_classes, reflected, call, log, x, y>>]_vars

\* endpoint() of the class of table "Tag", after reflection
EndpointWitness ==
    /\ ret.op = "endpoint"
    /\ ret.cls = "Tag"
    /\ "Tag" \in reflected
    /\ ret.res.s = <<"t","a","g","s">>

\* the entries of the call in progress (or of the last one) are the last
\* ones recorded
AllRecorded ==
    /\ Len(log) >= Len(call.items)
    /\ SubSeq(log, Len(log) - Len(call.items) + 1, Len(log)) = call.items

\* C10: a register call triggers reflection exactly once, after it has
\* recorded every class it was given, in a mapping created before the first
\* is recorded; when a call has returned without error every class of the
\* registry has its table.
ReflectionAfterRecording ==
    /\ call.prepares <= 1
    /\ call.prepares = 1 => call.pc = "idle" /\ AllRecorded
    /\ (call.pc = "idle" /\ call.status # "none") => call.prepares = 1
    /\ call.pc \in {"branch", "loop", "body", "single", "prepare"} =>
          ~endpoint_classes.isNone
    /\ (call.pc = "idle" /\ call.status = "ok") =>
          \A e \in DOMAIN endpoint_classes.m :
              ~Table(endpoint_classes.m[e], reflected).isNone

\* a call with two classes has returned, after an earlier call
ReflectionWitness ==
    /\ call.pc = "idle"
    /\ call.status = "ok"
    /\ call.prepares = 1
    /\ Len(call.items) = 2
    /\ Len(log) > 2
    /\ \A e \in DOMAIN endpoint_classes.m : endpoint_classes.m[e] \in reflected

====
